---- MODULE Spec2Model ----
(***************************************************************************)
(* Finance/Currency accounting engine of the personal finance tracker.     *)
(*                                                                         *)
(* The repository holds two variants of the engine: src/main.py (schema    *)
(* with constraints, income target selection, settings) and                *)
(* src/main_v1.py (unconstrained schema, explicit income account,          *)
(* transfers).  The variable "variant" says which program is running; it   *)
(* is chosen in Init and never changes.                                    *)
(*                                                                         *)
(* Money is a Python float in the source.  It is modelled as an exact      *)
(* rational <<n, d>> in lowest terms (d > 0): sums, differences and        *)
(* products are computed as the code computes them, without the binary     *)
(* rounding of the last bit.                                               *)
(***************************************************************************)
EXTENDS Integers, Sequences, FiniteSets, TLC

VARIABLES variant, accounts, expenses, incomes, transfers, cache, call, faults,
          categories, settings, report, posted

vars == <<variant, accounts, expenses, incomes, transfers, cache, call, faults, categories, settings, report, posted>>

(* ------------------------------ bounds --------------------------------- *)

MaxAccounts == 2

\* The number of calls of add_expense, add_income and transfer that write to
\* the store.
MaxWrites == 1

\* The number of categories the user adds.
MaxCategories == 2

\* The number of expenses and incomes the reports are asked about.
MaxRecords == 2

(* ---------------------------- rationals -------------------------------- *)

RECURSIVE Gcd(_, _)
Gcd(a, b) == IF b = 0 THEN a ELSE Gcd(b, a % b)

Abs(n) == IF n < 0 THEN -n ELSE n

Norm(n, d) ==
  LET g == Gcd(Abs(n), Abs(d))
      s == IF d < 0 THEN -1 ELSE 1
  IN <<(s * n) \div g, (s * d) \div g>>

R(n) == <<n, 1>>

RAdd(x, y) == Norm(x[1] * y[2] + y[1] * x[2], x[2] * y[2])

RSub(x, y) == Norm(x[1] * y[2] - y[1] * x[2], x[2] * y[2])

RMul(x, y) == Norm(x[1] * y[1], x[2] * y[2])

(* ------------------------ program constants ---------------------------- *)

SUPPORTED_CURRENCIES == {"BDT", "USD"}

ACCOUNT_TYPES == {"fixed", "liquid"}

(* ------------------------------ inputs --------------------------------- *)

Variants == {"main", "v1"}

\* Currency codes a caller may pass: the supported ones and one that is not.
Currencies == SUPPORTED_CURRENCIES \cup {"EUR"}

\* The accounts a caller may ask for: two valid ones (asking twice for the
\* same one is the name collision), one in an unsupported currency and one
\* of an unsupported type.
AccountInputs ==
  {[name |-> "a", currency |-> "BDT", type |-> "fixed"],
   [name |-> "b", currency |-> "USD", type |-> "liquid"],
   [name |-> "c", currency |-> "EUR", type |-> "fixed"],
   [name |-> "c", currency |-> "BDT", type |-> "savings"]}

TransferAccounts ==
  {a \in AccountInputs : a.currency \in SUPPORTED_CURRENCIES
                         /\ a.type \in ACCOUNT_TYPES}

OpeningBalances == {R(100)}

Amounts == {R(120)}

\* The categories a user may ask for: a new name, the name of a default
\* category, and a kind that is none.
CategoryInputs ==
  {[name |-> "Pets", kind |-> "expense"],
   [name |-> "Rent", kind |-> "expense"],
   [name |-> "Rent", kind |-> "income"],
   [name |-> "Pets", kind |-> "transfer"]}

\* The accounts the reports are asked about, with their opening balances.
ReportAccounts ==
  {[name |-> "a", currency |-> "BDT", type |-> "fixed", balance |-> R(100)],
   [name |-> "b", currency |-> "BDT", type |-> "liquid", balance |-> R(50)],
   [name |-> "c", currency |-> "USD", type |-> "liquid", balance |-> R(50)]}

\* The expenses and incomes the reports are asked about: upcoming and
\* settled ones, in either currency, dated before and after the starts of
\* the periods.
ReportRecords ==
  {[amount |-> R(40), currency |-> "BDT", is_upcoming |-> TRUE,
    when |-> <<2024, 2, 28>>],
   [amount |-> R(80), currency |-> "BDT", is_upcoming |-> TRUE,
    when |-> <<2024, 3, 2>>],
   [amount |-> R(120), currency |-> "USD", is_upcoming |-> FALSE,
    when |-> <<2024, 3, 6>>],
   [amount |-> R(40), currency |-> "BDT", is_upcoming |-> FALSE,
    when |-> <<2024, 2, 25>>]}

\* date.today() when a report is asked for: a Friday whose ISO week began in
\* the month before, and a Wednesday whose week began within the month.
Todays == {<<2024, 3, 1>>, <<2024, 3, 6>>}

\* The day the transactions of the ledger are dated.
LedgerDates == {<<2024, 3, 1>>}

\* No rate: an absent cache entry, or a payload without a usable rate.
NoRate == <<0, 0>>

LiveRates == {R(110), <<1, 110>>}

\* What the remote lookup answers.  status 0: requests.get raised (timeout,
\* connection error); otherwise the HTTP status.  rate NoRate: the payload is
\* malformed (no JSON, no ["rates"][target], not a number).
Responses ==
  {[status |-> 0, rate |-> NoRate]}
    \cup [status : {200, 500}, rate : LiveRates \cup {NoRate}]

\* The answers the ledger operations are run against.
LedgerResponses == {[status |-> 0, rate |-> NoRate], [status |-> 200, rate |-> R(110)]}

\* The pairs rate is called with: every currency with itself, the two pairs
\* of the fallback table and one pair that is not in it.
RatePairs ==
  {<<c, c>> : c \in Currencies}
    \cup {<<"USD", "BDT">>, <<"BDT", "USD">>, <<"BDT", "EUR">>}

Pairs == {p \in Currencies \X Currencies : p[1] # p[2]}

(* ----------------------- currency conversion --------------------------- *)

NoCache == [p \in Pairs |-> NoRate]

\* self.fallback_rate.get(key, 1.0)
fallback_rate(base, target) ==
  IF <<base, target>> = <<"USD", "BDT">> THEN R(120)
  ELSE IF <<base, target>> = <<"BDT", "USD">> THEN <<1, 120>>
  ELSE R(1)

\* The except branch of main_v1.py.
fallback_rate_v1(base, target) ==
  IF <<base, target>> = <<"USD", "BDT">> THEN R(120) ELSE <<1, 120>>

\* main.py: the lookup succeeded when no exception was raised, the status is
\* 200 and float(data["rates"][target]) is a number.
lookup_ok_main(resp) == resp.status = 200 /\ resp.rate # NoRate

\* main_v1.py: r.json()["rates"][target] without a look at the status.
lookup_ok_v1(resp) == resp.status # 0 /\ resp.rate # NoRate

\* fetch_rate without the "base == target" shortcut: equal currencies are
\* looked up like any other pair (the answer is not cached here).
fetch_rate_main_no_shortcut(c, base, target, resp) ==
  IF base = target
    THEN [rate |-> IF lookup_ok_main(resp) THEN resp.rate
                   ELSE fallback_rate(base, target),
          cache |-> c, gets |-> 1]
  ELSE IF c[<<base, target>>] # NoRate
    THEN [rate |-> c[<<base, target>>], cache |-> c, gets |-> 0]
  ELSE IF lookup_ok_main(resp)
    THEN [rate |-> resp.rate,
          cache |-> [c EXCEPT ![<<base, target>>] = resp.rate], gets |-> 1]
  ELSE [rate |-> fallback_rate(base, target), cache |-> c, gets |-> 1]

\* fetch_rate without the cache test: every call asks the remote, and a
\* fetched rate replaces the cached one.
fetch_rate_main_refreshing(c, base, target, resp) ==
  IF base = target THEN [rate |-> R(1), cache |-> c, gets |-> 0]
  ELSE IF lookup_ok_main(resp)
    THEN [rate |-> resp.rate,
          cache |-> [c EXCEPT ![<<base, target>>] = resp.rate], gets |-> 1]
  ELSE [rate |-> fallback_rate(base, target), cache |-> c, gets |-> 1]

\* fetch_rate on cache c with the remote answering resp (when asked).
\* rate: the value returned; cache: the cache afterwards; gets: the number of
\* HTTP requests made.
fetch_rate_main(c, base, target, resp) ==
  IF base = target THEN [rate |-> R(1), cache |-> c, gets |-> 0]
  ELSE IF c[<<base, target>>] # NoRate
    THEN [rate |-> c[<<base, target>>], cache |-> c, gets |-> 0]
  ELSE IF lookup_ok_main(resp)
    THEN [rate |-> resp.rate,
          cache |-> [c EXCEPT ![<<base, target>>] = resp.rate], gets |-> 1]
  ELSE [rate |-> fallback_rate(base, target), cache |-> c, gets |-> 1]

fetch_rate_v1(c, base, target, resp) ==
  IF base = target THEN [rate |-> R(1), cache |-> c, gets |-> 0]
  ELSE IF c[<<base, target>>] # NoRate
    THEN [rate |-> c[<<base, target>>], cache |-> c, gets |-> 0]
  ELSE IF lookup_ok_v1(resp)
    THEN [rate |-> resp.rate,
          cache |-> [c EXCEPT ![<<base, target>>] = resp.rate], gets |-> 1]
  ELSE [rate |-> fallback_rate_v1(base, target), cache |-> c, gets |-> 1]

fetch_rate(c, base, target, resp) ==
  IF variant = "main" THEN fetch_rate_main(c, base, target, resp)
  ELSE fetch_rate_v1(c, base, target, resp)

\* convert: amount * self.fetch_rate(base, target).  amount: the value
\* returned; rate: the rate fetch_rate returned; cache, gets as for fetch_rate.
convert(c, amount, base, target, resp) ==
  LET f == fetch_rate(c, base, target, resp)
  IN [amount |-> RMul(amount, f.rate), rates |-> <<f.rate>>,
      cache |-> f.cache, gets |-> f.gets]

\* "self.fx.convert(amount, currency, acc_cur) if currency != acc_cur else
\* amount", as add_expense, add_income and transfer write it.  rates is empty
\* when fetch_rate was not called.
converted(c, amount, currency, acc_cur, resp) ==
  IF currency # acc_cur THEN convert(c, amount, currency, acc_cur, resp)
  ELSE [amount |-> amount, rates |-> <<>>, cache |-> c, gets |-> 0]

(* ------------------------------- store -------------------------------- *)

\* No row for the key 'display_currency' in the settings table.
NoSetting == "none"

\* main.py, the defaults list of seed_defaults.
defaults ==
  <<[name |-> "Groceries", kind |-> "expense", is_default |-> 1],
    [name |-> "Rent", kind |-> "expense", is_default |-> 1],
    [name |-> "Utilities", kind |-> "expense", is_default |-> 1],
    [name |-> "Transport", kind |-> "expense", is_default |-> 1],
    [name |-> "Dining", kind |-> "expense", is_default |-> 1],
    [name |-> "Healthcare", kind |-> "expense", is_default |-> 1],
    [name |-> "Entertainment", kind |-> "expense", is_default |-> 1],
    [name |-> "Salary", kind |-> "income", is_default |-> 1],
    [name |-> "Freelance", kind |-> "income", is_default |-> 1],
    [name |-> "Investment", kind |-> "income", is_default |-> 1]>>

category_row(cats, name, kind, is_default) ==
  [id |-> Len(cats) + 1, name |-> name, kind |-> kind,
   is_default |-> is_default]

\* seed_defaults without the SELECT that looks for the category: every run
\* inserts the whole list again.
RECURSIVE seed_categories_again(_, _)
seed_categories_again(cats, todo) ==
  IF todo = <<>> THEN cats
  ELSE seed_categories_again(
         Append(cats, category_row(cats, todo[1].name, todo[1].kind,
                                   todo[1].is_default)),
         Tail(todo))

\* main.py, the loop of seed_defaults: a default is inserted when no row has
\* its name and kind.
RECURSIVE seed_categories(_, _)
seed_categories(cats, todo) ==
  IF todo = <<>> THEN cats
  ELSE seed_categories(
         IF \E i \in DOMAIN cats : /\ cats[i].name = todo[1].name
                                   /\ cats[i].kind = todo[1].kind
         THEN cats
         ELSE Append(cats, category_row(cats, todo[1].name, todo[1].kind,
                                        todo[1].is_default)),
         Tail(todo))

\* main.py, the end of seed_defaults: 'BDT' is stored when the settings
\* table has no row for the display currency.
seed_display_currency(setting) ==
  IF setting = NoSetting THEN "BDT" ELSE setting

\* main.py, DB.init_schema: CREATE TABLE IF NOT EXISTS keeps every table and
\* row there is (a table not yet created is an empty one), then
\* seed_defaults.
init_schema_main(cats, setting) ==
  [categories |-> seed_categories(cats, defaults),
   settings |-> seed_display_currency(setting)]

\* main_v1.py, DB.init_schema: the tables are created and nothing is seeded
\* (there is no settings table).
init_schema_v1(cats, setting) ==
  [categories |-> cats, settings |-> setting]

\* main.py: CurrencyService.get_display_currency.
get_display_currency(setting) ==
  IF setting # NoSetting THEN setting ELSE "BDT"

\* set_display_currency without the membership test.
set_display_currency_unchecked(setting, cur) ==
  [raised |-> "none", settings |-> cur]

\* main.py: CurrencyService.set_display_currency (INSERT OR REPLACE).
set_display_currency(setting, cur) ==
  IF cur \notin SUPPORTED_CURRENCIES
  THEN [raised |-> "ValueError", settings |-> setting]
  ELSE [raised |-> "none", settings |-> cur]

\* main.py: FinanceService.add_category; the categories table has no
\* UNIQUE constraint.
add_category(cats, name, kind) ==
  IF kind \notin {"expense", "income"}
  THEN [raised |-> "ValueError", categories |-> cats]
  ELSE [raised |-> "none",
        categories |-> Append(cats, category_row(cats, name, kind, 0))]

(* ------------------------------ ledger --------------------------------- *)

\* datetime.utcnow() of add_account as a logical clock: the wall clock is
\* taken to advance between two calls, so an account's created_at is its rank
\* among the accounts created.  The other tables' rows are modelled without
\* the columns no engine operation reads back (names, category, created_at).
utcnow == Len(accounts) + 1

\* date.isoformat(): a date <<year, month, day>> as the text "YYYY-MM-DD",
\* here the sequence of its eight digits (the two dashes stand at the same
\* places in every such text and decide no comparison).
isoformat(d) ==
  <<d[1] \div 1000, (d[1] \div 100) % 10, (d[1] \div 10) % 10, d[1] % 10,
    d[2] \div 10, d[2] % 10, d[3] \div 10, d[3] % 10>>

\* s >= t on TEXT columns: SQLite compares the texts character by character.
RECURSIVE text_ge(_, _)
text_ge(s, t) ==
  IF t = <<>> THEN TRUE
  ELSE IF s = <<>> THEN FALSE
  ELSE IF s[1] # t[1] THEN s[1] > t[1]
  ELSE text_ge(Tail(s), Tail(t))

\* SELECT ... FROM accounts WHERE id=?
account_by_id(accts, id) == SelectSeq(accts, LAMBDA a : a.id = id)

\* UPDATE accounts SET balance=? WHERE id=?
update_balance(accts, account_id, new_balance) ==
  [i \in DOMAIN accts |->
     IF accts[i].id = account_id
     THEN [accts[i] EXCEPT !.balance = new_balance] ELSE accts[i]]

\* ORDER BY created_at DESC
RECURSIVE order_by_created_at_desc(_)
order_by_created_at_desc(rows) ==
  IF rows = <<>> THEN <<>>
  ELSE LET m == CHOOSE i \in DOMAIN rows :
                  \A j \in DOMAIN rows : rows[j].created_at <= rows[i].created_at
       IN <<rows[m]>> \o order_by_created_at_desc(
            SubSeq(rows, 1, m - 1) \o SubSeq(rows, m + 1, Len(rows)))

\* list_accounts without the ORDER BY: the rows in insertion order.
list_accounts_unordered(accts) == accts

\* main.py: SELECT * FROM accounts ORDER BY created_at DESC
list_accounts(accts) == order_by_created_at_desc(accts)

(* What a call leaves behind: the exception raised ("none" when it returns), *)
(* the tables and the cache afterwards, the rates fetch_rate returned and    *)
(* the number of HTTP requests made.                                         *)
Outcome(raised, accts, exps, incs, trs, c, rates, gets) ==
  [raised |-> raised, accounts |-> accts, expenses |-> exps, incomes |-> incs,
   transfers |-> trs, cache |-> c, rates |-> rates, gets |-> gets]

Unchanged(raised) ==
  Outcome(raised, accounts, expenses, incomes, transfers, cache, <<>>, 0)

\* account_row that leaves the balance to the column's default, 0.
account_row_unopened(name, currency, balance, acc_type) ==
  [id |-> Len(accounts) + 1, name |-> name, currency |-> currency,
   balance |-> R(0), type |-> acc_type, created_at |-> utcnow]

account_row(name, currency, balance, acc_type) ==
  [id |-> Len(accounts) + 1, name |-> name, currency |-> currency,
   balance |-> balance, type |-> acc_type, created_at |-> utcnow]

\* main.py: the value checks, then the INSERT under the schema's constraints
\* (name UNIQUE; the CHECKs on currency and type repeat the value checks).
add_account_main(name, currency, balance, acc_type) ==
  IF currency \notin SUPPORTED_CURRENCIES THEN Unchanged("ValueError")
  ELSE IF acc_type \notin ACCOUNT_TYPES THEN Unchanged("ValueError")
  ELSE IF \E i \in DOMAIN accounts : accounts[i].name = name
    THEN Unchanged("IntegrityError")
  ELSE Outcome("none",
               Append(accounts, account_row(name, currency, balance, acc_type)),
               expenses, incomes, transfers, cache, <<>>, 0)

\* main_v1.py: the INSERT alone, into a table without constraints.
add_account_v1(name, currency, balance, acc_type) ==
  Outcome("none",
          Append(accounts, account_row(name, currency, balance, acc_type)),
          expenses, incomes, transfers, cache, <<>>, 0)

expense_row(amount, currency, account_id, is_upcoming, when) ==
  [id |-> Len(expenses) + 1, amount |-> amount, currency |-> currency,
   account_id |-> account_id, is_upcoming |-> is_upcoming,
   date |-> isoformat(when)]

\* expense_debit with the conversion forgotten: the amount is subtracted as
\* it is, whatever its currency.
expense_debit_unconverted(acc, amount, currency, account_id, exps, resp) ==
  Outcome("none", update_balance(accounts, account_id, RSub(acc.balance, amount)),
          exps, incomes, transfers, cache, <<>>, 0)

\* expense_debit that also settles the account's earlier expenses: their
\* upcoming flag is cleared.
expense_debit_settling(acc, amount, currency, account_id, exps, resp) ==
  LET d == converted(cache, amount, currency, acc.currency, resp)
      settled == [k \in DOMAIN exps |->
                    IF exps[k].account_id = account_id
                    THEN [exps[k] EXCEPT !.is_upcoming = FALSE]
                    ELSE exps[k]]
  IN Outcome("none",
             update_balance(accounts, account_id, RSub(acc.balance, d.amount)),
             settled, incomes, transfers, d.cache, d.rates, d.gets)

\* The debit of add_expense once the row is inserted.
expense_debit(acc, amount, currency, account_id, exps, resp) ==
  LET d == converted(cache, amount, currency, acc.currency, resp)
  IN Outcome("none",
             update_balance(accounts, account_id, RSub(acc.balance, d.amount)),
             exps, incomes, transfers, d.cache, d.rates, d.gets)

\* add_expense_main without the "if not is_upcoming" test: every expense is
\* debited.
add_expense_main_always(amount, currency, account_id, is_upcoming, when, resp) ==
  LET exps == Append(expenses,
                     expense_row(amount, currency, account_id, is_upcoming,
                                 when))
      acc == account_by_id(accounts, account_id)
  IN IF currency \notin SUPPORTED_CURRENCIES THEN Unchanged("IntegrityError")
     ELSE IF acc # <<>>
       THEN expense_debit(acc[1], amount, currency, account_id, exps, resp)
     ELSE Outcome("none", accounts, exps, incomes, transfers, cache, <<>>, 0)

\* add_expense_main with the foreign key enforced: an expense against an
\* unknown account is refused and leaves no row.
add_expense_main_enforcing(amount, currency, account_id, is_upcoming, when, resp) ==
  LET exps == Append(expenses,
                     expense_row(amount, currency, account_id, is_upcoming,
                                 when))
      acc == account_by_id(accounts, account_id)
  IN IF currency \notin SUPPORTED_CURRENCIES THEN Unchanged("IntegrityError")
     ELSE IF acc = <<>> THEN Unchanged("IntegrityError")
     ELSE IF ~is_upcoming
       THEN expense_debit(acc[1], amount, currency, account_id, exps, resp)
     ELSE Outcome("none", accounts, exps, incomes, transfers, cache, <<>>, 0)

\* main.py: the INSERT (currency CHECK; the foreign keys are declared but
\* SQLite does not enforce them without PRAGMA foreign_keys), then the debit
\* when the expense is not upcoming and the account exists.
add_expense_main(amount, currency, account_id, is_upcoming, when, resp) ==
  LET exps == Append(expenses,
                     expense_row(amount, currency, account_id, is_upcoming,
                                 when))
      acc == account_by_id(accounts, account_id)
  IN IF currency \notin SUPPORTED_CURRENCIES THEN Unchanged("IntegrityError")
     ELSE IF ~is_upcoming /\ acc # <<>>
       THEN expense_debit(acc[1], amount, currency, account_id, exps, resp)
     ELSE Outcome("none", accounts, exps, incomes, transfers, cache, <<>>, 0)

\* main_v1.py: the INSERT, then "[0]" of the account query, which raises
\* IndexError on an unknown account after the row was committed.
add_expense_v1(amount, currency, account_id, is_upcoming, when, resp) ==
  LET exps == Append(expenses,
                     expense_row(amount, currency, account_id, is_upcoming,
                                 when))
      acc == account_by_id(accounts, account_id)
  IN IF is_upcoming
       THEN Outcome("none", accounts, exps, incomes, transfers, cache, <<>>, 0)
     ELSE IF acc = <<>>
       THEN Outcome("IndexError", accounts, exps, incomes, transfers, cache,
                    <<>>, 0)
     ELSE expense_debit(acc[1], amount, currency, account_id, exps, resp)

income_row(amount, currency, account_id, is_upcoming, expected_date) ==
  [id |-> Len(incomes) + 1, amount |-> amount, currency |-> currency,
   account_id |-> account_id, is_upcoming |-> is_upcoming,
   expected_date |-> isoformat(expected_date)]

\* main.py, the target account of a settled income: the first liquid account
\* of list_accounts() in the income's currency, else the first account, else
\* none (the empty sequence).
target_account(accts, currency) ==
  LET listed == list_accounts(accts)
      liquid == SelectSeq(listed, LAMBDA a : a.type = "liquid"
                                             /\ a.currency = currency)
  IN IF liquid # <<>> THEN <<liquid[1]>>
     ELSE IF listed # <<>> THEN <<listed[1]>>
     ELSE <<>>

\* The credit of add_income once the row is inserted.
income_credit(acc, amount, currency, incs, resp) ==
  LET k == converted(cache, amount, currency, acc.currency, resp)
  IN Outcome("none",
             update_balance(accounts, acc.id, RAdd(acc.balance, k.amount)),
             expenses, incs, transfers, k.cache, k.rates, k.gets)

\* main.py: the incomes table has no account column (account_id 0 in the
\* row); the INSERT checks the currency.
add_income_main(amount, currency, is_upcoming, expected_date, resp) ==
  LET incs == Append(incomes, income_row(amount, currency, 0, is_upcoming,
                                   expected_date))
      target_acc == target_account(accounts, currency)
  IN IF currency \notin SUPPORTED_CURRENCIES THEN Unchanged("IntegrityError")
     ELSE IF ~is_upcoming /\ target_acc # <<>>
       THEN income_credit(target_acc[1], amount, currency, incs, resp)
     ELSE Outcome("none", accounts, expenses, incs, transfers, cache, <<>>, 0)

\* main_v1.py: the caller names the account; "[0]" raises IndexError on an
\* unknown one after the row was committed.
add_income_v1(amount, currency, acc_id, is_upcoming, when, resp) ==
  LET incs == Append(incomes,
                     income_row(amount, currency, acc_id, is_upcoming, when))
      acc == account_by_id(accounts, acc_id)
  IN IF is_upcoming
       THEN Outcome("none", accounts, expenses, incs, transfers, cache, <<>>, 0)
     ELSE IF acc = <<>>
       THEN Outcome("IndexError", accounts, expenses, incs, transfers, cache,
                    <<>>, 0)
     ELSE income_credit(acc[1], amount, currency, incs, resp)

transfer_row(from_id, to_id, amount, currency) ==
  [id |-> Len(transfers) + 1, from_account |-> from_id, to_account |-> to_id,
   amount |-> amount, currency |-> currency]

\* transfer with the credit taken from the debit: the amount is converted
\* once, into the source account's currency, and that figure is credited.
transfer_v1_one_rate(from_id, to_id, amount, currency, resp1, resp2, fault) ==
  LET f == account_by_id(accounts, from_id)
      t == account_by_id(accounts, to_id)
  IN IF f = <<>> \/ t = <<>> THEN Unchanged("IndexError")
     ELSE
       LET debit == converted(cache, amount, currency, f[1].currency, resp1)
           accts1 == update_balance(accounts, from_id,
                                    RSub(f[1].balance, debit.amount))
           accts2 == update_balance(accts1, to_id,
                                    RAdd(t[1].balance, debit.amount))
           trs == Append(transfers,
                         transfer_row(from_id, to_id, amount, currency))
       IN IF fault = 1
            THEN Outcome("OperationalError", accounts, expenses, incomes,
                         transfers, debit.cache, debit.rates, debit.gets)
          ELSE IF fault = 2
            THEN Outcome("OperationalError", accts1, expenses, incomes,
                         transfers, debit.cache, debit.rates, debit.gets)
          ELSE IF fault = 3
            THEN Outcome("OperationalError", accts2, expenses, incomes,
                         transfers, debit.cache, debit.rates, debit.gets)
          ELSE Outcome("none", accts2, expenses, incomes, trs, debit.cache,
                       debit.rates, debit.gets)

\* transfer run as one transaction: a fault in any statement rolls the
\* earlier writes back.
transfer_v1_atomic(from_id, to_id, amount, currency, resp1, resp2, fault) ==
  LET f == account_by_id(accounts, from_id)
      t == account_by_id(accounts, to_id)
  IN IF f = <<>> \/ t = <<>> THEN Unchanged("IndexError")
     ELSE
       LET debit == converted(cache, amount, currency, f[1].currency, resp1)
           credit == converted(debit.cache, amount, currency, t[1].currency,
                               resp2)
           rates == debit.rates \o credit.rates
           gets == debit.gets + credit.gets
           accts1 == update_balance(accounts, from_id,
                                    RSub(f[1].balance, debit.amount))
           accts2 == update_balance(accts1, to_id,
                                    RAdd(t[1].balance, credit.amount))
           trs == Append(transfers,
                         transfer_row(from_id, to_id, amount, currency))
       IN IF fault # 0
            THEN Outcome("OperationalError", accounts, expenses, incomes,
                         transfers, credit.cache, rates, gets)
          ELSE Outcome("none", accts2, expenses, incomes, trs, credit.cache,
                       rates, gets)

\* main_v1.py.  Both accounts are read first, both amounts converted, then
\* three statements are executed, each committed on its own by DB.execute.
\* fault: the statement in which sqlite3 raises (database locked, disk full),
\* 0 when none does.
transfer_v1(from_id, to_id, amount, currency, resp1, resp2, fault) ==
  LET f == account_by_id(accounts, from_id)
      t == account_by_id(accounts, to_id)
  IN IF f = <<>> \/ t = <<>> THEN Unchanged("IndexError")
     ELSE
       LET debit == converted(cache, amount, currency, f[1].currency, resp1)
           credit == converted(debit.cache, amount, currency, t[1].currency,
                               resp2)
           rates == debit.rates \o credit.rates
           gets == debit.gets + credit.gets
           accts1 == update_balance(accounts, from_id,
                                    RSub(f[1].balance, debit.amount))
           accts2 == update_balance(accts1, to_id,
                                    RAdd(t[1].balance, credit.amount))
           trs == Append(transfers,
                         transfer_row(from_id, to_id, amount, currency))
       IN IF fault = 1
            THEN Outcome("OperationalError", accounts, expenses, incomes,
                         transfers, credit.cache, rates, gets)
          ELSE IF fault = 2
            THEN Outcome("OperationalError", accts1, expenses, incomes,
                         transfers, credit.cache, rates, gets)
          ELSE IF fault = 3
            THEN Outcome("OperationalError", accts2, expenses, incomes,
                         transfers, credit.cache, rates, gets)
          ELSE Outcome("none", accts2, expenses, incomes, trs, credit.cache,
                       rates, gets)

(* ------------------------------ reports -------------------------------- *)

\* No report was asked for since the ledger last changed.
NoReport == <<>>

\* round(x, 2): the nearest multiple of 0.01, a tie going to the even one.
round2(x) ==
  LET whole == x[1] \div x[2]
      part == 100 * (x[1] % x[2])
      q == 100 * whole + (part \div x[2])
      r == part % x[2]
  IN IF 2 * r < x[2] THEN Norm(q, 100)
     ELSE IF 2 * r > x[2] THEN Norm(q + 1, 100)
     ELSE IF q % 2 = 0 THEN Norm(q, 100)
     ELSE Norm(q + 1, 100)

\* The currency service during one report: the cache, the rates fetch_rate
\* has returned and the HTTP requests made so far.  resps[n] is what the
\* remote answers to the n-th request of the report.
fx_start(c) == [cache |-> c, rates |-> <<>>, gets |-> 0]

\* CurrencyService.convert within a report.
fx_convert(fx, amount, base, target, resps) ==
  LET f == fetch_rate(fx.cache, base, target, resps[fx.gets + 1])
  IN [amount |-> RMul(amount, f.rate),
      fx |-> [cache |-> f.cache, rates |-> Append(fx.rates, f.rate),
              gets |-> fx.gets + f.gets]]

\* main.py, the loop of totals over the listed accounts.
RECURSIVE totals_loop(_, _, _, _, _, _)
totals_loop(listed, display_cur, total_fixed, total_liquid, fx, resps) ==
  IF listed = <<>>
  THEN [total_fixed |-> total_fixed, total_liquid |-> total_liquid, fx |-> fx]
  ELSE LET a == listed[1]
           k == IF a.currency = display_cur
                THEN [amount |-> a.balance, fx |-> fx]
                ELSE fx_convert(fx, a.balance, a.currency, display_cur, resps)
       IN IF a.type = "fixed"
          THEN totals_loop(Tail(listed), display_cur,
                           RAdd(total_fixed, k.amount), total_liquid, k.fx,
                           resps)
          ELSE totals_loop(Tail(listed), display_cur, total_fixed,
                           RAdd(total_liquid, k.amount), k.fx, resps)

\* totals with the conversion left out: the balances are added as they are.
totals_unconverted(fx, resps) ==
  LET display_cur == get_display_currency(settings)
      same == [i \in DOMAIN accounts |->
                 [accounts[i] EXCEPT !.currency = display_cur]]
      t == totals_loop(list_accounts(same), display_cur, R(0), R(0), fx, resps)
  IN [result |-> [display_currency |-> display_cur,
                  total_fixed |-> round2(t.total_fixed),
                  total_liquid |-> round2(t.total_liquid),
                  total_all |-> round2(RAdd(t.total_fixed, t.total_liquid))],
      fx |-> t.fx]

\* main.py: FinanceService.totals.
totals(fx, resps) ==
  LET display_cur == get_display_currency(settings)
      t == totals_loop(list_accounts(accounts), display_cur, R(0), R(0), fx,
                       resps)
  IN [result |-> [display_currency |-> display_cur,
                  total_fixed |-> round2(t.total_fixed),
                  total_liquid |-> round2(t.total_liquid),
                  total_all |-> round2(RAdd(t.total_fixed, t.total_liquid))],
      fx |-> t.fx]

\* sum(self.fx.convert(r["amount"], r["currency"], display_cur) for r in rows)
RECURSIVE sum_converted(_, _, _, _, _)
sum_converted(rows, display_cur, total, fx, resps) ==
  IF rows = <<>> THEN [total |-> total, fx |-> fx]
  ELSE LET k == fx_convert(fx, rows[1].amount, rows[1].currency, display_cur,
                           resps)
       IN sum_converted(Tail(rows), display_cur, RAdd(total, k.amount), k.fx,
                        resps)

\* main.py: FinanceService.upcoming_totals.  The two sums are taken first,
\* totals() is called last, while the result is built.
upcoming_totals(fx, resps) ==
  LET display_cur == get_display_currency(settings)
      exp == SelectSeq(expenses, LAMBDA e : e.is_upcoming)
      inc == SelectSeq(incomes, LAMBDA i : i.is_upcoming)
      up_exp == sum_converted(exp, display_cur, R(0), fx, resps)
      up_inc == sum_converted(inc, display_cur, R(0), up_exp.fx, resps)
      t == totals(up_inc.fx, resps)
  IN [result |-> [display_currency |-> display_cur,
                  upcoming_expenses |-> round2(up_exp.total),
                  upcoming_incomes |-> round2(up_inc.total),
                  projected_total |->
                    round2(RAdd(RSub(t.result.total_all, up_exp.total),
                                up_inc.total))],
      fx |-> t.fx]

\* The calendar (datetime.date): leap years, the days before a year and
\* before a month, the ordinal of a date, and the weekday with Monday as 0.
is_leap(y) == y % 4 = 0 /\ (y % 100 # 0 \/ y % 400 = 0)

days_in_month(y, m) ==
  IF m = 2 THEN (IF is_leap(y) THEN 29 ELSE 28)
  ELSE IF m \in {4, 6, 9, 11} THEN 30 ELSE 31

RECURSIVE days_before_month(_, _)
days_before_month(y, m) ==
  IF m = 1 THEN 0
  ELSE days_before_month(y, m - 1) + days_in_month(y, m - 1)

days_before_year(y) ==
  (y - 1) * 365 + (y - 1) \div 4 - (y - 1) \div 100 + (y - 1) \div 400

toordinal(d) == days_before_year(d[1]) + days_before_month(d[1], d[2]) + d[3]

weekday(d) == (toordinal(d) + 6) % 7

\* The days the model's dates are taken from: February and March 2024.
Calendar ==
  {<<2024, m, d>> : m \in {2, 3}, d \in 1..31} \ {<<2024, 2, d>> : d \in 30..31}

fromordinal(n) == CHOOSE d \in Calendar : toordinal(d) = n

\* monday_of_iso_week one week off: the Monday after today.
monday_of_next_iso_week(today) ==
  fromordinal(toordinal(today) - weekday(today) + 7)

\* date.fromisocalendar(iso year, iso week, 1) of today's isocalendar(): the
\* Monday of the ISO week today is in.
monday_of_iso_week(today) == fromordinal(toordinal(today) - weekday(today))

Periods == {"daily", "weekly", "monthly"}

\* main.py, the start of the period in period_summary.
period_start(period, today) ==
  IF period = "daily" THEN today
  ELSE IF period = "weekly" THEN monday_of_iso_week(today)
  ELSE <<today[1], today[2], 1>>

\* main.py: FinanceService.period_summary; today is date.today().
period_summary(period, today, fx, resps) ==
  IF period \notin Periods
  THEN [raised |-> "ValueError", result |-> NoReport, fx |-> fx]
  ELSE
    LET display_cur == get_display_currency(settings)
        start == isoformat(period_start(period, today))
        exp == SelectSeq(expenses, LAMBDA e : text_ge(e.date, start))
        inc == SelectSeq(incomes, LAMBDA i : text_ge(i.expected_date, start))
        total_exp == sum_converted(exp, display_cur, R(0), fx, resps)
        total_inc == sum_converted(inc, display_cur, R(0), total_exp.fx, resps)
    IN [raised |-> "none",
        result |-> [display_currency |-> display_cur, period |-> period,
                    expenses |-> round2(total_exp.total),
                    income |-> round2(total_inc.total),
                    net |-> round2(RSub(total_inc.total, total_exp.total))],
        fx |-> total_inc.fx]

(* ------------------------------ actions -------------------------------- *)

AccountIds == 1..MaxAccounts

Faults == 0..3

\* The calls so far that inserted a transaction row or were cut short by a
\* fault of the store.
Writes == Len(expenses) + Len(incomes) + Len(transfers) + faults

\* What the call with outcome o posted to the accounts, kept for the
\* ledger's history: for each row it inserted as not upcoming, the account
\* the row is recorded against or was credited to, and the amount converted
\* at the rate fetch_rate returned during the call (the amount itself when
\* no rate was asked for).
postings(o) ==
  LET at_call(amount) ==
        IF o.rates = <<>> THEN amount ELSE RMul(amount, o.rates[1])
      exps == SubSeq(o.expenses, Len(expenses) + 1, Len(o.expenses))
      incs == SubSeq(o.incomes, Len(incomes) + 1, Len(o.incomes))
      credited(i) ==
        IF variant = "main"
        THEN LET t == target_account(accounts, i.currency)
             IN IF t = <<>> THEN 0 ELSE t[1].id
        ELSE i.account_id
  IN [k \in DOMAIN SelectSeq(exps, LAMBDA e : ~e.is_upcoming) |->
        LET e == SelectSeq(exps, LAMBDA x : ~x.is_upcoming)[k]
        IN [table |-> "expenses", account |-> e.account_id,
            amount |-> at_call(e.amount)]]
     \o
     [k \in DOMAIN SelectSeq(incs, LAMBDA i : ~i.is_upcoming) |->
        LET i == SelectSeq(incs, LAMBDA x : ~x.is_upcoming)[k]
        IN [table |-> "incomes", account |-> credited(i),
            amount |-> at_call(i.amount)]]

\* A call with outcome o: the stored state is what the call left; call
\* remembers the last call: the operation, the exception it raised, the
\* rates fetch_rate returned during it and the HTTP requests it made.  args
\* holds the arguments of a direct fetch_rate call and of a transfer that
\* found both accounts (it may leave no row); the arguments of add_expense
\* and add_income are in the row they insert.
Apply(op, args, o) ==
  /\ accounts' = o.accounts
  /\ expenses' = o.expenses
  /\ incomes' = o.incomes
  /\ transfers' = o.transfers
  /\ cache' = o.cache
  /\ call' = [op |-> op, args |-> args, raised |-> o.raised,
              rates |-> o.rates, gets |-> o.gets]
  /\ faults' = IF o.raised = "OperationalError" THEN faults + 1 ELSE faults
  /\ report' = NoReport
  /\ posted' = posted \o postings(o)
  /\ UNCHANGED <<variant, categories, settings>>

Init ==
  /\ variant \in Variants
  /\ accounts = <<>>
  /\ expenses = <<>>
  /\ incomes = <<>>
  /\ transfers = <<>>
  /\ cache = NoCache
  /\ faults = 0
  /\ call = [op |-> "init", args |-> <<>>, raised |-> "none", rates |-> <<>>,
             gets |-> 0]
  /\ LET store == IF variant = "main" THEN init_schema_main(<<>>, NoSetting)
                  ELSE init_schema_v1(<<>>, NoSetting)
     IN /\ categories = store.categories
        /\ settings = store.settings
  /\ report = NoReport
  /\ posted = <<>>

add_account(name, currency, balance, acc_type) ==
  /\ Len(accounts) < MaxAccounts
  /\ Apply("add_account", <<>>,
           IF variant = "main"
           THEN add_account_main(name, currency, balance, acc_type)
           ELSE add_account_v1(name, currency, balance, acc_type))

add_expense(amount, currency, account_id, is_upcoming, when, resp) ==
  /\ Writes < MaxWrites
  /\ Apply("add_expense", <<>>,
           IF variant = "main"
           THEN add_expense_main(amount, currency, account_id, is_upcoming,
                                 when, resp)
           ELSE add_expense_v1(amount, currency, account_id, is_upcoming,
                               when, resp))

\* account_id is an argument of main_v1.py only (0 stands for its absence in
\* main.py).
add_income(amount, currency, account_id, is_upcoming, when, resp) ==
  /\ Writes < MaxWrites
  /\ Apply("add_income", <<>>,
           IF variant = "main"
           THEN add_income_main(amount, currency, is_upcoming, when, resp)
           ELSE add_income_v1(amount, currency, account_id, is_upcoming,
                              when, resp))

\* Only main_v1.py has transfer.
transfer(from_id, to_id, amount, currency, resp1, resp2, fault) ==
  /\ variant = "v1"
  /\ Writes < MaxWrites
  /\ LET o == transfer_v1(from_id, to_id, amount, currency, resp1, resp2,
                          fault)
     IN Apply("transfer",
              IF o.raised = "IndexError" THEN <<>>
              ELSE <<from_id, to_id, currency, fault>>,
              o)

\* A direct call of CurrencyService.fetch_rate.
rate(base, target, resp) ==
  LET f == fetch_rate(cache, base, target, resp)
  IN Apply("fetch_rate", <<base, target>>,
           Outcome("none", accounts, expenses, incomes, transfers, f.cache,
                   <<f.rate>>, f.gets))

AddAccount ==
  \E a \in AccountInputs, balance \in OpeningBalances :
    add_account(a.name, a.currency, balance, a.type)

\* The accounts the transfers are run between: one per supported currency
\* (main_v1.py looks at neither name nor type).
AddTransferAccount ==
  \E a \in TransferAccounts, balance \in OpeningBalances :
    add_account(a.name, a.currency, balance, a.type)

AddExpense ==
  \E amount \in Amounts, currency \in Currencies, account_id \in AccountIds,
     is_upcoming \in BOOLEAN, when \in LedgerDates,
     resp \in LedgerResponses :
    add_expense(amount, currency, account_id, is_upcoming, when, resp)

AddIncome ==
  \E amount \in Amounts, currency \in Currencies, is_upcoming \in BOOLEAN,
     account_id \in IF variant = "main" THEN {0} ELSE AccountIds,
     when \in LedgerDates, resp \in LedgerResponses :
    add_income(amount, currency, account_id, is_upcoming, when, resp)

Transfer ==
  \E from_id \in AccountIds, to_id \in AccountIds, amount \in Amounts,
     currency \in SUPPORTED_CURRENCIES, resp1 \in LedgerResponses,
     resp2 \in LedgerResponses, fault \in Faults :
    transfer(from_id, to_id, amount, currency, resp1, resp2, fault)

FetchRate ==
  \E p \in RatePairs, resp \in Responses : rate(p[1], p[2], resp)

\* A call on the settings or the categories: the ledger is left alone.
ApplyStore(op, raised, cats, setting, c) ==
  /\ categories' = cats
  /\ settings' = setting
  /\ cache' = c
  /\ call' = [op |-> op, args |-> <<>>, raised |-> raised, rates |-> <<>>,
              gets |-> 0]
  /\ report' = NoReport
  /\ UNCHANGED <<variant, accounts, expenses, incomes, transfers, faults,
                 posted>>

\* The program is started on the store there is: DB.__init__ runs
\* init_schema, and the new CurrencyService starts with an empty cache.
InitSchema ==
  LET store == IF variant = "main" THEN init_schema_main(categories, settings)
               ELSE init_schema_v1(categories, settings)
  IN ApplyStore("init_schema", "none", store.categories, store.settings,
                NoCache)

\* The store was initialised by a first start of main.py.
Started == settings # NoSetting

SetDisplayCurrencyTo(cur) ==
  /\ variant = "main"
  /\ Started
  /\ LET o == set_display_currency(settings, cur)
     IN ApplyStore("set_display_currency", o.raised, categories, o.settings,
                   cache)

SetDisplayCurrency == \E cur \in Currencies : SetDisplayCurrencyTo(cur)

AddCategory ==
  /\ variant = "main"
  /\ Started
  /\ Len(categories) < Len(defaults) + MaxCategories
  /\ \E k \in CategoryInputs :
       LET o == add_category(categories, k.name, k.kind)
       IN ApplyStore("add_category", o.raised, o.categories, settings, cache)

AddStoreAccount ==
  /\ Started
  /\ AddTransferAccount

\* The engine as the presentation layer drives it: accounts, expenses and
\* incomes, in either variant.
Next == AddAccount \/ AddExpense \/ AddIncome

Spec == Init /\ [][Next]_vars

\* The transfers of main_v1.py.
InitTransfer == Init /\ variant = "v1"

NextTransfer == AddTransferAccount \/ Transfer

SpecTransfer == InitTransfer /\ [][NextTransfer]_vars

\* The currency service alone, in either variant.
NextFx == FetchRate

SpecFx == Init /\ [][NextFx]_vars

\* The requests one report can make: at most one for each account and each
\* transaction row (one more keeps resps defined after the last).
Requests == 1..(MaxAccounts + MaxRecords + 1)

\* The remote during one report: down for the first k requests, then up.
\* (main.py stores only BDT and USD, so a report converts one pair, and
\* after the first answer the pair is cached and no request follows.)
remote(k) ==
  [n \in Requests |-> IF n <= k THEN [status |-> 0, rate |-> NoRate]
                               ELSE [status |-> 200, rate |-> R(110)]]

Outages == 0..(MaxAccounts + MaxRecords)

\* A report: nothing is written to the store; the cache keeps what the
\* report fetched.
ApplyReport(op, args, raised, result, fx) ==
  /\ report' = result
  /\ cache' = fx.cache
  /\ call' = [op |-> op, args |-> args, raised |-> raised,
              rates |-> fx.rates, gets |-> fx.gets]
  /\ UNCHANGED <<variant, accounts, expenses, incomes, transfers, faults,
                 categories, settings, posted>>

AddReportAccount ==
  \E a \in ReportAccounts : add_account(a.name, a.currency, a.balance, a.type)

\* The accounts the projection is asked about: the ones in BDT.
AddProjectionAccount ==
  \E a \in {x \in ReportAccounts : x.currency = "BDT"} :
    add_account(a.name, a.currency, a.balance, a.type)

Totals ==
  /\ variant = "main"
  /\ \E k \in Outages :
       LET t == totals(fx_start(cache), remote(k))
       IN ApplyReport("totals", <<>>, "none", t.result, t.fx)

AddReportExpense ==
  /\ variant = "main"
  /\ Len(expenses) + Len(incomes) < MaxRecords
  /\ \E r \in ReportRecords, resp \in LedgerResponses :
       Apply("add_expense", <<>>,
             add_expense_main(r.amount, r.currency, 1, r.is_upcoming, r.when,
                              resp))

AddReportIncome ==
  /\ variant = "main"
  /\ Len(expenses) + Len(incomes) < MaxRecords
  /\ \E r \in ReportRecords, resp \in LedgerResponses :
       Apply("add_income", <<>>,
             add_income_main(r.amount, r.currency, r.is_upcoming, r.when,
                             resp))

UpcomingTotals ==
  /\ variant = "main"
  /\ \E k \in Outages :
       LET u == upcoming_totals(fx_start(cache), remote(k))
       IN ApplyReport("upcoming_totals", <<>>, "none", u.result, u.fx)

PeriodSummary ==
  /\ variant = "main"
  /\ \E period \in Periods \cup {"yearly"}, today \in Todays, k \in Outages :
       LET q == period_summary(period, today, fx_start(cache), remote(k))
       IN ApplyReport("period_summary", <<period, today>>, q.raised,
                      q.result, q.fx)

\* main.py, the refresh of the home page: totals, upcoming_totals and the
\* three period summaries, one after the other with the one CurrencyService;
\* a fallback rate is not cached, so every conversion may ask the remote:
\* totals converts the accounts, upcoming_totals the upcoming rows and the
\* accounts again, each period summary the rows it counts.
RefreshConversions == 2 * Len(accounts) + 4 * (Len(expenses) + Len(incomes))

\* The remote is down for the first k requests of the refresh, then up.
remote_during_refresh(k) ==
  [n \in 1..(RefreshConversions + 1) |->
     IF n <= k THEN [status |-> 0, rate |-> NoRate]
     ELSE [status |-> 200, rate |-> R(110)]]

\* The five calls in the order of the code, each on the cache the call
\* before it left.
Refresh ==
  /\ variant = "main"
  /\ \E today \in Todays, k \in 0..RefreshConversions :
       \E resps \in {remote_during_refresh(k)} :
       \E totals_ \in {totals(fx_start(cache), resps)} :
       \E upcoming \in {upcoming_totals(totals_.fx, resps)} :
       \E daily \in {period_summary("daily", today, upcoming.fx, resps)} :
       \E weekly \in {period_summary("weekly", today, daily.fx, resps)} :
       \E monthly \in {period_summary("monthly", today, weekly.fx, resps)} :
         ApplyReport("refresh", <<today>>, "none",
                     [totals |-> totals_.result, upcoming |-> upcoming.result,
                      daily |-> daily.result, weekly |-> weekly.result,
                      monthly |-> monthly.result],
                     monthly.fx)

\* main.py, the totals of the dashboard.
InitReports == Init /\ variant = "main"

NextTotals == AddReportAccount \/ SetDisplayCurrency \/ Totals

SpecTotals == InitReports /\ [][NextTotals]_vars

\* main.py, the projection of the dashboard.
NextUpcoming ==
  \/ AddProjectionAccount
  \/ AddReportExpense
  \/ AddReportIncome
  \/ SetDisplayCurrency
  \/ UpcomingTotals

SpecUpcoming == InitReports /\ [][NextUpcoming]_vars

\* main.py, the period summaries of the dashboard.
NextPeriod ==
  AddReportExpense \/ AddReportIncome \/ SetDisplayCurrency \/ PeriodSummary

SpecPeriod == InitReports /\ [][NextPeriod]_vars

\* main.py, the home page over a ledger of expenses and incomes: expenses
\* of the week the month begins in, settled incomes in USD.
RefreshExpenses == {r \in ReportRecords : r.when # <<2024, 2, 25>>}

RefreshIncomes == {r \in ReportRecords : ~r.is_upcoming /\ r.currency = "USD"}

AddRefreshExpense ==
  /\ variant = "main"
  /\ Len(expenses) + Len(incomes) < MaxRecords
  /\ \E r \in RefreshExpenses, resp \in LedgerResponses :
       Apply("add_expense", <<>>,
             add_expense_main(r.amount, r.currency, 1, r.is_upcoming, r.when,
                              resp))

AddRefreshIncome ==
  /\ variant = "main"
  /\ Len(expenses) + Len(incomes) < MaxRecords
  /\ \E r \in RefreshIncomes, resp \in LedgerResponses :
       Apply("add_income", <<>>,
             add_income_main(r.amount, r.currency, r.is_upcoming, r.when,
                             resp))

NextRefresh ==
  AddRefreshExpense \/ AddRefreshIncome \/ SetDisplayCurrency \/ Refresh

SpecRefresh == InitReports /\ [][NextRefresh]_vars

\* The store of main.py from the empty file on: it is initialised by the
\* first start and again by every later one.
InitStore ==
  /\ variant = "main"
  /\ accounts = <<>>
  /\ expenses = <<>>
  /\ incomes = <<>>
  /\ transfers = <<>>
  /\ cache = NoCache
  /\ faults = 0
  /\ call = [op |-> "none", args |-> <<>>, raised |-> "none", rates |-> <<>>,
             gets |-> 0]
  /\ categories = <<>>
  /\ settings = NoSetting
  /\ report = NoReport
  /\ posted = <<>>

NextStore == InitSchema \/ SetDisplayCurrency \/ AddCategory \/ AddStoreAccount

SpecStore == InitStore /\ [][NextStore]_vars

\* Both variants, a ledger of several transactions: accounts are opened and
\* expenses and incomes entered in any order, upcoming or settled.
AddLedgerExpense ==
  /\ Len(expenses) + Len(incomes) < MaxRecords
  /\ \E amount \in Amounts, currency \in SUPPORTED_CURRENCIES,
        account_id \in AccountIds, is_upcoming \in BOOLEAN,
        when \in LedgerDates, resp \in LedgerResponses :
       Apply("add_expense", <<>>,
             IF variant = "main"
             THEN add_expense_main(amount, currency, account_id, is_upcoming,
                                   when, resp)
             ELSE add_expense_v1(amount, currency, account_id, is_upcoming,
                                 when, resp))

AddLedgerIncome ==
  /\ Len(expenses) + Len(incomes) < MaxRecords
  /\ \E amount \in Amounts, currency \in SUPPORTED_CURRENCIES,
        is_upcoming \in BOOLEAN,
        account_id \in IF variant = "main" THEN {0} ELSE AccountIds,
        when \in LedgerDates, resp \in LedgerResponses :
       Apply("add_income", <<>>,
             IF variant = "main"
             THEN add_income_main(amount, currency, is_upcoming, when, resp)
             ELSE add_income_v1(amount, currency, account_id, is_upcoming,
                                when, resp))

NextLedger == AddTransferAccount \/ AddLedgerExpense \/ AddLedgerIncome

SpecLedger == Init /\ [][NextLedger]_vars

(* ------------------------------ claims --------------------------------- *)

\* The account rows with the given id.
Existing(account_id) == account_by_id(accounts, account_id)

\* The currencies the running variant's store accepts in a transaction row:
\* main.py's schema has CHECK(currency IN ('BDT','USD')), main_v1.py's none.
Accepted(currency) == variant = "v1" \/ currency \in SUPPORTED_CURRENCIES

\* The rate the currency service answers with in the current state.
RateNow(base, target, resp) == fetch_rate(cache, base, target, resp).rate

\* A step that appended a row to a transaction table appended the row of
\* these arguments.  Every step of add_expense and add_income with these
\* arguments satisfies it, so as a conjunct before the action it changes no
\* formula; it only spares evaluating the action for the other arguments.
Inserted(old, new, amount, currency, account_id, is_upcoming) ==
  Len(new) > Len(old) =>
    /\ new[Len(new)].currency = currency
    /\ new[Len(new)].account_id = account_id
    /\ new[Len(new)].is_upcoming = is_upcoming

\* The accounts with amount subtracted from the balance of account_id.
Debited(accts, account_id, amount) ==
  [i \in DOMAIN accts |->
     IF accts[i].id = account_id
     THEN [accts[i] EXCEPT !.balance = RSub(accts[i].balance, amount)]
     ELSE accts[i]]

\* The accounts with amount added to the balance of account_id.
Credited(accts, account_id, amount) ==
  [i \in DOMAIN accts |->
     IF accts[i].id = account_id
     THEN [accts[i] EXCEPT !.balance = RAdd(accts[i].balance, amount)]
     ELSE accts[i]]

(* C1: a settled (not upcoming) expense of amount A in currency Cx against  *)
(* an existing account X of currency Ca sets X's balance to                  *)
(* B - A * rate(Cx, Ca), to exactly B - A without any rate lookup when       *)
(* Cx = Ca, and leaves every other account as it was.                        *)
C1_ExpenseDebitsAccount ==
  [][\A amount \in Amounts, currency \in Currencies,
        account_id \in AccountIds, when \in LedgerDates,
        resp \in LedgerResponses :
       ( /\ call'.op = "add_expense"
         /\ Existing(account_id) # <<>>
         /\ Accepted(currency)
         /\ Inserted(expenses, expenses', amount, currency, account_id, FALSE)
         /\ add_expense(amount, currency, account_id, FALSE, when, resp) )
       => LET Ca == Existing(account_id)[1].currency
          IN IF currency = Ca
             THEN /\ accounts' = Debited(accounts, account_id, amount)
                  /\ cache' = cache
                  /\ call'.gets = 0
             ELSE accounts' =
                    Debited(accounts, account_id,
                            RMul(amount, RateNow(currency, Ca, resp)))]_vars

\* A settled expense was converted and debited from an existing account.
C1_Witness ==
  /\ call.op = "add_expense"
  /\ call.raised = "none"
  /\ call.rates # <<>>
  /\ Len(accounts) = 2
  /\ \E e \in {expenses[i] : i \in DOMAIN expenses} :
       /\ ~e.is_upcoming
       /\ \E a \in {accounts[i] : i \in DOMAIN accounts} :
            /\ a.id = e.account_id
            /\ a.currency # e.currency
            /\ a.balance = RSub(R(100), RMul(e.amount, call.rates[1]))

(* C2: an upcoming expense or income changes no account balance: the        *)
(* accounts are as before, no rate is looked up, and the only change is the *)
(* record added.                                                             *)
C2_UpcomingKeepsBalances ==
  [][\A amount \in Amounts, currency \in Currencies,
        account_id \in AccountIds \cup {0}, when \in LedgerDates,
        resp \in LedgerResponses :
       /\ ( /\ call'.op = "add_expense"
            /\ Inserted(expenses, expenses', amount, currency, account_id, TRUE)
            /\ add_expense(amount, currency, account_id, TRUE, when, resp) )
            => /\ accounts' = accounts
               /\ cache' = cache
               /\ incomes' = incomes
               /\ Accepted(currency) =>
                    /\ Len(expenses') = Len(expenses) + 1
                    /\ SubSeq(expenses', 1, Len(expenses)) = expenses
       /\ ( /\ call'.op = "add_income"
            /\ Inserted(incomes, incomes', amount, currency, account_id, TRUE)
            /\ add_income(amount, currency, account_id, TRUE, when, resp) )
            => /\ accounts' = accounts
               /\ cache' = cache
               /\ expenses' = expenses
               /\ Accepted(currency) =>
                    /\ Len(incomes') = Len(incomes) + 1
                    /\ SubSeq(incomes', 1, Len(incomes)) = incomes]_vars

\* An upcoming expense against an existing account in another currency was
\* recorded, and the balances are the opening ones.
C2_Witness ==
  /\ call.op = "add_expense"
  /\ call.raised = "none"
  /\ Len(expenses) = 1
  /\ expenses[1].is_upcoming
  /\ \E i \in DOMAIN accounts :
       /\ accounts[i].id = expenses[1].account_id
       /\ accounts[i].currency # expenses[1].currency
  /\ \A i \in DOMAIN accounts : accounts[i].balance = R(100)

C4_IncomeWithoutAccounts ==
  [][\A amount \in Amounts, currency \in SUPPORTED_CURRENCIES,
        account_id \in AccountIds \cup {0}, is_upcoming \in BOOLEAN,
        when \in LedgerDates, resp \in LedgerResponses :
       ( /\ call'.op = "add_income"
         /\ accounts = <<>>
         /\ add_income(amount, currency, account_id, is_upcoming, when, resp) )
       => /\ call'.raised = "none"
          /\ accounts' = <<>>
          /\ Len(incomes') = Len(incomes) + 1]_vars

(* C5: a transfer of main_v1.py between two existing accounts that runs to  *)
(* its end converts the amount once into each account's currency, sets the  *)
(* source balance to Bf - A * rate(currency, source currency) and the       *)
(* destination balance to Bt + A * rate(currency, destination currency),    *)
(* leaves every other account as it was and adds exactly one transfer row.  *)
C5_TransferMovesAmount ==
  [][(call'.op = "transfer" /\ call'.args # <<>>) =>
      \A amount \in Amounts, resp1 \in LedgerResponses,
         resp2 \in LedgerResponses :
       LET from_id == call'.args[1]
           to_id == call'.args[2]
           currency == call'.args[3]
       IN
       ( /\ call'.args[4] = 0
         /\ from_id # to_id
         /\ Existing(from_id) # <<>>
         /\ Existing(to_id) # <<>>
         /\ transfer(from_id, to_id, amount, currency, resp1, resp2, 0) )
       => LET Cf == Existing(from_id)[1].currency
              Ct == Existing(to_id)[1].currency
              first == fetch_rate(cache, currency, Cf, resp1)
              debit == IF currency = Cf THEN amount
                       ELSE RMul(amount, first.rate)
              seen == IF currency = Cf THEN cache ELSE first.cache
              credit == IF currency = Ct THEN amount
                        ELSE RMul(amount,
                                  fetch_rate(seen, currency, Ct, resp2).rate)
          IN /\ accounts' = Credited(Debited(accounts, from_id, debit),
                                     to_id, credit)
             /\ Len(transfers') = Len(transfers) + 1
             /\ SubSeq(transfers', 1, Len(transfers)) = transfers
             /\ transfers'[Len(transfers')].from_account = from_id
             /\ transfers'[Len(transfers')].to_account = to_id
             /\ transfers'[Len(transfers')].amount = amount
             /\ transfers'[Len(transfers')].currency = currency
             /\ call'.raised = "none"]_vars

\* A transfer between two accounts of different currencies ran to its end:
\* one row, the source below and the destination above the opening balance.
C5_Witness ==
  /\ call.op = "transfer"
  /\ call.raised = "none"
  /\ Len(transfers) = 1
  /\ Len(accounts) = 2
  /\ transfers[1].from_account # transfers[1].to_account
  /\ accounts[1].currency # accounts[2].currency
  /\ \E i, j \in DOMAIN accounts :
       /\ accounts[i].id = transfers[1].from_account
       /\ accounts[j].id = transfers[1].to_account
       /\ accounts[i].balance[1] < 100 * accounts[i].balance[2]
       /\ accounts[j].balance[1] > 100 * accounts[j].balance[2]

(* C6: transfer is not atomic: when the store fails in the second balance   *)
(* write, after the write for the source account was committed, the ledger  *)
(* keeps the debit of the source account, with no credit to the destination *)
(* and no transfer row; nothing is rolled back.                              *)
C6_TransferNotAtomic ==
  [][(call'.op = "transfer" /\ call'.args # <<>>) =>
      \A amount \in Amounts, resp1 \in LedgerResponses,
         resp2 \in LedgerResponses :
       LET from_id == call'.args[1]
           to_id == call'.args[2]
           currency == call'.args[3]
       IN
       ( /\ call'.args[4] = 2
         /\ Existing(from_id) # <<>>
         /\ Existing(to_id) # <<>>
         /\ transfer(from_id, to_id, amount, currency, resp1, resp2, 2) )
       => LET Cf == Existing(from_id)[1].currency
              debit == IF currency = Cf THEN amount
                       ELSE RMul(amount, RateNow(currency, Cf, resp1))
          IN /\ accounts' = Debited(accounts, from_id, debit)
             /\ transfers' = transfers
             /\ call'.raised = "OperationalError"]_vars

\* A transfer was cut short: the source account is below its opening
\* balance, the other account still holds it, and there is no transfer row.
C6_Witness ==
  /\ call.op = "transfer"
  /\ call.raised = "OperationalError"
  /\ transfers = <<>>
  /\ Len(accounts) = 2
  /\ \E i, j \in DOMAIN accounts :
       /\ i # j
       /\ accounts[i].balance[1] < 100 * accounts[i].balance[2]
       /\ accounts[j].balance = R(100)

(* C7: rate(c, c) is 1.0 for every currency code c, in every cache state    *)
(* and whatever the remote would answer; no request is made and the cache   *)
(* is not changed.                                                           *)
C7_SameCurrencyRateIsOne ==
  [][\A c \in Currencies, resp \in Responses :
       rate(c, c, resp)
       => /\ call'.rates = <<R(1)>>
          /\ call'.raised = "none"
          /\ call'.gets = 0
          /\ cache' = cache]_vars

\* rate(c, c) was called on a cache that holds a fetched rate.
C7_Witness ==
  /\ call.op = "fetch_rate"
  /\ call.args[1] = call.args[2]
  /\ call.rates = <<R(1)>>
  /\ \E p \in Pairs : cache[p] # NoRate

\* The remote lookup failed: the request raised, the status is not 200 or
\* the payload holds no rate.
Failed(resp) == resp.status # 200 \/ resp.rate = NoRate

\* The static fallback table, 1.0 for a pair that is not in it.
FallbackTable(base, target) ==
  CASE <<base, target>> = <<"USD", "BDT">> -> R(120)
    [] <<base, target>> = <<"BDT", "USD">> -> <<1, 120>>
    [] OTHER -> R(1)

(* C8: for base # target not in the cache, a failed remote lookup (the      *)
(* request raising, a status other than 200, a malformed payload) makes     *)
(* rate(base, target) return the fallback table's value for the pair, 1.0   *)
(* for a pair not in the table, without raising and without caching it.     *)
C8_FailedLookupFallsBack ==
  [][\A p \in Pairs, resp \in Responses :
       ( /\ rate(p[1], p[2], resp)
         /\ cache[p] = NoRate
         /\ Failed(resp) )
       => /\ call'.rates = <<FallbackTable(p[1], p[2])>>
          /\ call'.raised = "none"
          /\ cache' = cache]_vars

(* C9: a fetched rate stays: no step removes or overwrites a cache entry,   *)
(* and once the pair (base, target) is cached every rate(base, target)      *)
(* returns the cached rate without asking the remote, whatever the remote   *)
(* would answer.                                                             *)
C9_CachedRateIsKept ==
  [][\A p \in Pairs :
       cache[p] # NoRate
       => /\ cache'[p] = cache[p]
          /\ \A resp \in Responses :
               rate(p[1], p[2], resp)
               => /\ call'.rates = <<cache[p]>>
                  /\ call'.gets = 0]_vars

\* rate(base, target) was answered from the cache, without a request.
C9_Witness ==
  /\ call.op = "fetch_rate"
  /\ call.args[1] # call.args[2]
  /\ call.gets = 0
  /\ cache[call.args] # NoRate
  /\ call.rates = <<cache[call.args]>>

(* C10: add_account fails, creating no row and leaving the accounts as they *)
(* were, when the currency is not BDT or USD, when the type is not fixed or *)
(* liquid, or when an account of that name exists.                           *)
C10_AddAccountRejects ==
  [][\A a \in AccountInputs, balance \in OpeningBalances :
       ( /\ call'.op = "add_account"
         /\ \/ a.currency \notin SUPPORTED_CURRENCIES
            \/ a.type \notin ACCOUNT_TYPES
            \/ \E i \in DOMAIN accounts : accounts[i].name = a.name
         /\ add_account(a.name, a.currency, balance, a.type) )
       => /\ call'.raised # "none"
          /\ accounts' = accounts]_vars

(* C11: set_display_currency with a code outside the supported set raises   *)
(* (ValueError, the engine's unsupported-currency error) and leaves the      *)
(* stored display currency as it was; in every state of the store, from the  *)
(* empty file on, get_display_currency returns a supported currency.         *)
C11_DisplayCurrencySupported ==
  /\ [](get_display_currency(settings) \in SUPPORTED_CURRENCIES)
  /\ [][\A cur \in Currencies \ SUPPORTED_CURRENCIES :
          ( /\ call'.op = "set_display_currency"
            /\ SetDisplayCurrencyTo(cur) )
          => /\ call'.raised = "ValueError"
             /\ settings' = settings]_vars

\* An unsupported code was refused while the display currency was one the
\* user had chosen, which is still the one stored.
C11_Witness ==
  /\ call.op = "set_display_currency"
  /\ call.raised = "ValueError"
  /\ settings = "USD"
  /\ get_display_currency(settings) = "USD"

RECURSIVE RSum(_)
RSum(amounts) ==
  IF amounts = <<>> THEN R(0) ELSE RAdd(amounts[1], RSum(Tail(amounts)))

\* The rates rate(base, target) can return for two different currencies on
\* an empty or a filled cache: a live rate or the fallback.
RatesFor(base, target) ==
  {r.rate : r \in {x \in LedgerResponses : x.status = 200}}
    \cup {FallbackTable(base, target)}

(* C13: after totals(), the result holds the display currency, total_fixed  *)
(* = the sum over the fixed accounts of the balance converted to the        *)
(* display currency (the balance itself for an account in that currency,    *)
(* else balance * the rate(currency, display currency) returned for that    *)
(* account, the newest account being converted first), total_liquid = the   *)
(* same sum over the liquid accounts and total_all = the sum over all       *)
(* accounts, each rounded to 2 decimals; a fixed account of 100 and a       *)
(* liquid account of 50, both in the display currency, give 100, 50, 150.   *)
C13_TotalsSumPerType ==
  call.op = "totals" =>
    LET d == get_display_currency(settings)
        foreign == {i \in DOMAIN accounts : accounts[i].currency # d}
        nth(i) == Cardinality({j \in foreign : accounts[j].created_at
                                                  >= accounts[i].created_at})
        value(i) == IF i \in foreign
                    THEN RMul(accounts[i].balance, call.rates[nth(i)])
                    ELSE accounts[i].balance
        of_type(t) == [i \in DOMAIN accounts |->
                         IF accounts[i].type = t THEN value(i) ELSE R(0)]
        all == [i \in DOMAIN accounts |-> value(i)]
    IN /\ Len(call.rates) = Cardinality(foreign)
       /\ \A i \in foreign :
            call.rates[nth(i)] \in RatesFor(accounts[i].currency, d)
       /\ report = [display_currency |-> d,
                    total_fixed |-> round2(RSum(of_type("fixed"))),
                    total_liquid |-> round2(RSum(of_type("liquid"))),
                    total_all |-> round2(RSum(all))]
       /\ ( /\ Len(accounts) = 2
            /\ \E i, j \in DOMAIN accounts :
                 /\ accounts[i].type = "fixed"
                 /\ accounts[i].balance = R(100)
                 /\ accounts[j].type = "liquid"
                 /\ accounts[j].balance = R(50)
            /\ foreign = {} )
          => /\ report.total_fixed = R(100)
             /\ report.total_liquid = R(50)
             /\ report.total_all = R(150)

\* totals() was asked with a fixed account in the display currency and a
\* liquid account in the other currency, whose balance was converted at the
\* fallback rate.
C13_Witness ==
  /\ call.op = "totals"
  /\ Len(accounts) = 2
  /\ settings = "BDT"
  /\ \E i, j \in DOMAIN accounts :
       /\ accounts[i].type = "fixed" /\ accounts[i].currency = "BDT"
       /\ accounts[j].type = "liquid" /\ accounts[j].currency = "USD"
  /\ call.rates = <<R(120)>>
  /\ report.total_fixed = R(100)
  /\ report.total_liquid = R(6000)
  /\ report.total_all = R(6100)

\* amounts[n] * rates[from + n], summed: the rows converted at the rates
\* the call was given for them, one after the other.
ConvertedSum(rows, rates, from) ==
  RSum([n \in DOMAIN rows |-> RMul(rows[n].amount, rates[from + n])])

\* total_all as totals() returns it on this ledger when the accounts in
\* another currency than the display currency are converted, newest first,
\* at rates[from + 1], rates[from + 2], ...
TotalAll(rates, from) ==
  LET d == get_display_currency(settings)
      foreign == {i \in DOMAIN accounts : accounts[i].currency # d}
      nth(i) == Cardinality({j \in foreign : accounts[j].created_at
                                                >= accounts[i].created_at})
  IN round2(RSum([i \in DOMAIN accounts |->
                    IF i \in foreign
                    THEN RMul(accounts[i].balance, rates[from + nth(i)])
                    ELSE accounts[i].balance]))

(* C14: the result of upcoming_totals() satisfies projected_total =         *)
(* total_all - upcoming_expenses + upcoming_incomes, where total_all is the  *)
(* value totals() returns on the same ledger (at the rates the report's own  *)
(* totals() call was given) and upcoming_expenses and upcoming_incomes are   *)
(* the values of the same result: the rounded sums of the upcoming expenses  *)
(* and of the upcoming incomes, each converted to the display currency.      *)
C14_ProjectedTotal ==
  call.op = "upcoming_totals" =>
    LET exp == SelectSeq(expenses, LAMBDA e : e.is_upcoming)
        inc == SelectSeq(incomes, LAMBDA i : i.is_upcoming)
    IN /\ report.upcoming_expenses = round2(ConvertedSum(exp, call.rates, 0))
       /\ report.upcoming_incomes
            = round2(ConvertedSum(inc, call.rates, Len(exp)))
       /\ report.projected_total
            = RAdd(RSub(TotalAll(call.rates, Len(exp) + Len(inc)),
                        report.upcoming_expenses),
                   report.upcoming_incomes)

\* The Mondays of the weeks of the days reports are asked on: 1 March 2024
\* is a Friday, 6 March 2024 a Wednesday.
MondayBefore(today) ==
  IF today = <<2024, 3, 1>> THEN <<2024, 2, 26>> ELSE <<2024, 3, 4>>

\* A stored date, YYYY-MM-DD, as the number YYYYMMDD.
DateNumber(text) ==
  LET RECURSIVE number(_, _)
      number(t, n) == IF t = <<>> THEN n ELSE number(Tail(t), 10 * n + t[1])
  IN number(text, 0)

OnOrAfter(text, day) == DateNumber(text) >= 10000 * day[1] + 100 * day[2] + day[3]

(* C15: period_summary(period) sums exactly the expenses whose date is on   *)
(* or after the period start and the incomes whose expected date is on or   *)
(* after it (start = today for daily, the Monday of today's week for        *)
(* weekly, the first day of today's month for monthly), whatever their      *)
(* upcoming flag, each converted to the display currency, and the net of    *)
(* the result is the income of the result minus its expenses.               *)
C15_PeriodSummary ==
  (call.op = "period_summary" /\ call.raised = "none") =>
    LET period == call.args[1]
        today == call.args[2]
        start == IF period = "daily" THEN today
                 ELSE IF period = "weekly" THEN MondayBefore(today)
                 ELSE <<today[1], today[2], 1>>
        exp == SelectSeq(expenses, LAMBDA e : OnOrAfter(e.date, start))
        inc == SelectSeq(incomes, LAMBDA i : OnOrAfter(i.expected_date, start))
    IN /\ report.expenses = round2(ConvertedSum(exp, call.rates, 0))
       /\ report.income = round2(ConvertedSum(inc, call.rates, Len(exp)))
       /\ report.net = RSub(report.income, report.expenses)

(* C16: no operation changes the upcoming flag of an existing expense or    *)
(* income record, and an account balance changes only in the call that      *)
(* inserts a settled record, by that record's converted amount: never on    *)
(* account of a record entered earlier.                                     *)
C16_UpcomingNeverPromoted ==
  [][LET at_call(amount) ==
           IF call'.rates = <<>> THEN amount ELSE RMul(amount, call'.rates[1])
         e == expenses'[Len(expenses')]
         i == incomes'[Len(incomes')]
     IN /\ Len(expenses') >= Len(expenses)
        /\ \A k \in DOMAIN expenses :
             /\ expenses'[k].id = expenses[k].id
             /\ expenses'[k].is_upcoming = expenses[k].is_upcoming
        /\ Len(incomes') >= Len(incomes)
        /\ \A k \in DOMAIN incomes :
             /\ incomes'[k].id = incomes[k].id
             /\ incomes'[k].is_upcoming = incomes[k].is_upcoming
        /\ \A a \in DOMAIN accounts :
             accounts'[a].balance # accounts[a].balance =>
               \/ /\ Len(expenses') = Len(expenses) + 1
                  /\ incomes' = incomes
                  /\ ~e.is_upcoming
                  /\ e.account_id = accounts[a].id
                  /\ accounts'[a].balance
                       = RSub(accounts[a].balance, at_call(e.amount))
               \/ /\ Len(incomes') = Len(incomes) + 1
                  /\ expenses' = expenses
                  /\ ~i.is_upcoming
                  /\ accounts'[a].balance
                       = RAdd(accounts[a].balance, at_call(i.amount))]_vars

\* An expense entered as upcoming is still upcoming after a settled expense
\* against the same account was entered and debited.
C16_Witness ==
  /\ call.op = "add_expense"
  /\ call.raised = "none"
  /\ Len(expenses) = 2
  /\ expenses[1].is_upcoming
  /\ ~expenses[2].is_upcoming
  /\ expenses[2].account_id = expenses[1].account_id
  /\ Existing(expenses[1].account_id) # <<>>
  /\ Existing(expenses[1].account_id)[1].balance # R(100)
  /\ Len(posted) = 1

\* The rows of cats with this name and kind.
RowsOf(cats, name, kind) ==
  {k \in DOMAIN cats : cats[k].name = name /\ cats[k].kind = kind}

C18_AddAccountRoundTrip ==
  [][\A a \in AccountInputs, balance \in OpeningBalances :
       ( /\ accounts = <<>>
         /\ call'.op = "add_account"
         /\ call'.raised = "none"
         /\ add_account(a.name, a.currency, balance, a.type) )
       => LET listed == list_accounts(accounts')
          IN /\ Len(listed) = 1
             /\ listed[1].name = a.name
             /\ listed[1].currency = a.currency
             /\ listed[1].balance = balance
             /\ listed[1].type = a.type]_vars

\* The first account of a store was added and is the one account listed.
C18_Witness ==
  /\ call.op = "add_account"
  /\ call.raised = "none"
  /\ expenses = <<>>
  /\ incomes = <<>>
  /\ Len(list_accounts(accounts)) = 1
  /\ list_accounts(accounts)[1].name = "b"
  /\ list_accounts(accounts)[1].currency = "USD"
  /\ list_accounts(accounts)[1].balance = R(100)
  /\ list_accounts(accounts)[1].type = "liquid"

\* The sum of the amounts posted from this table to this account.
Posted(table, account_id) ==
  RSum([k \in DOMAIN posted |->
          IF posted[k].table = table /\ posted[k].account = account_id
          THEN posted[k].amount ELSE R(0)])

\* The balance an account was opened with.
Opening(account) == CHOOSE balance \in OpeningBalances : TRUE

(* C19: main.py, ledger consistency.  After any sequence of add_account,    *)
(* add_expense and add_income calls every account's balance is its opening  *)
(* balance, minus the converted amounts of the settled expenses recorded    *)
(* against it, plus the converted amounts of the settled incomes credited   *)
(* to it, each converted at the rate returned during its call; and no call  *)
(* changes the name, currency or type of an existing account.               *)
C19_LedgerConsistent ==
  /\ [](variant = "main" =>
         \A a \in DOMAIN accounts :
           accounts[a].balance
             = RAdd(RSub(Opening(accounts[a]),
                         Posted("expenses", accounts[a].id)),
                    Posted("incomes", accounts[a].id)))
  /\ [][variant = "main" =>
          \A a \in DOMAIN accounts :
            /\ accounts'[a].id = accounts[a].id
            /\ accounts'[a].name = accounts[a].name
            /\ accounts'[a].currency = accounts[a].currency
            /\ accounts'[a].type = accounts[a].type]_vars

\* The sum of the balances of all accounts.
TotalBalance(accts) == RSum([a \in DOMAIN accts |-> accts[a].balance])

(* C20: main_v1.py, transfer conserves value.  When the transfer currency   *)
(* is the currency of both accounts, the sum of all account balances is     *)
(* the same before and after a transfer that ran to its end, for every      *)
(* pair of existing accounts, from_id = to_id included: a transfer of an    *)
(* account to itself leaves its balance as it was.                          *)
C20_TransferConservesValue ==
  [][(call'.op = "transfer" /\ call'.args # <<>> /\ call'.raised = "none") =>
      LET from_id == call'.args[1]
          to_id == call'.args[2]
          currency == call'.args[3]
      IN ( /\ Existing(from_id)[1].currency = currency
           /\ Existing(to_id)[1].currency = currency )
         => /\ TotalBalance(accounts') = TotalBalance(accounts)
            /\ (from_id = to_id => accounts' = accounts)]_vars

\* x <= y for two amounts.
RLe(x, y) == x[1] * y[2] <= y[1] * x[2]

\* The first day of a period: today, the Monday of today's week, the first
\* day of today's month.
FirstDay(period, today) ==
  IF period = "daily" THEN today
  ELSE IF period = "weekly" THEN MondayBefore(today)
  ELSE <<today[1], today[2], 1>>

\* The expenses followed by the incomes dated on or after the first day of
\* the period: the rows a period summary converts, in the order it does.
Counted(period, today) ==
  SelectSeq(expenses, LAMBDA e : OnOrAfter(e.date, FirstDay(period, today)))
    \o SelectSeq(incomes,
                 LAMBDA i : OnOrAfter(i.expected_date, FirstDay(period, today)))

\* The rates the three period summaries of the last refresh were given for
\* the rows in another currency than the display currency.  The rates of
\* the refresh are those of totals (one per account in another currency),
\* of upcoming_totals (one per upcoming row, then totals again) and of the
\* daily, the weekly and the monthly summary (one per row counted).
ForeignRates ==
  LET d == get_display_currency(settings)
      today == call.args[1]
      A == Cardinality({a \in DOMAIN accounts : accounts[a].currency # d})
      U == Len(SelectSeq(expenses, LAMBDA e : e.is_upcoming))
             + Len(SelectSeq(incomes, LAMBDA i : i.is_upcoming))
      rows == Counted("daily", today) \o Counted("weekly", today)
                \o Counted("monthly", today)
  IN {call.rates[A + U + A + n] :
        n \in {m \in DOMAIN rows : rows[m].currency # d}}

(* C21 as claimed: the period windows are nested; in every refresh the      *)
(* daily expenses are at most the weekly expenses, which are at most the    *)
(* monthly expenses, and the same for income.                               *)
C21_PeriodsNested ==
  call.op = "refresh" =>
    /\ RLe(report.daily.expenses, report.weekly.expenses)
    /\ RLe(report.weekly.expenses, report.monthly.expenses)
    /\ RLe(report.daily.income, report.weekly.income)
    /\ RLe(report.weekly.income, report.monthly.income)

(* C21 as the code has it: when the three period summaries of a refresh     *)
(* convert at the same rate, the daily expenses are at most the weekly and  *)
(* at most the monthly expenses, and the weekly expenses are at most the    *)
(* monthly ones if the Monday of today's week is in today's month; the      *)
(* same for income.                                                         *)
C21_PeriodsNestedWithinMonth ==
  (call.op = "refresh" /\ Cardinality(ForeignRates) <= 1) =>
    /\ RLe(report.daily.expenses, report.weekly.expenses)
    /\ RLe(report.daily.expenses, report.monthly.expenses)
    /\ RLe(report.daily.income, report.weekly.income)
    /\ RLe(report.daily.income, report.monthly.income)
    /\ MondayBefore(call.args[1])[2] = call.args[1][2] =>
         /\ RLe(report.weekly.expenses, report.monthly.expenses)
         /\ RLe(report.weekly.income, report.monthly.income)

\* A refresh on 6 March, a Wednesday, converted an expense of that day at
\* one rate in all three summaries; the month has more expenses than the day.
C21_Witness ==
  /\ call.op = "refresh"
  /\ call.args = <<(<<2024, 3, 6>>)>>
  /\ ForeignRates # {}
  /\ Cardinality(ForeignRates) = 1
  /\ report.daily.expenses # R(0)
  /\ report.weekly.expenses = report.daily.expenses
  /\ report.monthly.expenses # report.daily.expenses

(* C22: the rate cache holds only rates obtained from a successful remote   *)
(* lookup.  A call of rate(base, target) stores nothing for another pair,   *)
(* stores a rate only when its lookup succeeded, and then the rate the      *)
(* remote gave; after a failed lookup (timeout, bad status, malformed       *)
(* payload) the cache is as it was, and a call that finds no rate cached    *)
(* for its pair asks the remote.                                            *)
C22_CacheHoldsLiveRates ==
  [][\A p \in Pairs, resp \in Responses :
       rate(p[1], p[2], resp)
       => /\ \A q \in Pairs \ {p} : cache'[q] = cache[q]
          /\ cache'[p] # cache[p] => (~Failed(resp) /\ cache'[p] = resp.rate)
          /\ (cache[p] = NoRate /\ Failed(resp)) => cache'[p] = NoRate
          /\ cache[p] = NoRate => call'.gets = 1]_vars

====
